---- MODULE Spec2Model ----
(***************************************************************************)
(* A model of the chainlit news chatbot: chat.py (agents Runner client)    *)
(* and chatbot/chatlit.py (litellm client).  Three handlers, start, main   *)
(* and end, work on a per-session chat history and on the archive file     *)
(* chat_history.json.                                                      *)
(*                                                                         *)
(* A text is a sequence of strings (its pieces, in order); the empty text  *)
(* is <<>>.  Classifier outputs are texts whose pieces are single          *)
(* characters, so that strip() and lower() work on them as in Python.      *)
(***************************************************************************)
EXTENDS Integers, Sequences, FiniteSets, TLC

VARIABLES
    variant,       \* which program runs: chat.py or chatbot/chatlit.py
    file,          \* chat_history.json
    pc,            \* where each session is in its life
    chat_history,  \* cl.user_session's "chat_history" of each session
    all_history,   \* the local all_history of each session's end()
    resumed,       \* the history each session's start() loaded
    last,          \* the latest handler invocation: what it was given
    calls,         \* the external requests the latest handler invocation issued
    sent,          \* the messages the latest handler invocation sent to the user
    raised,        \* whether an exception left the latest handler invocation
    now,           \* the clock, in seconds
    turns          \* turns taken so far

vars == <<variant, file, pc, chat_history, all_history, resumed,
          last, calls, sent, raised, now, turns>>

----------------------------------------------------------------------------
(* Bounds of the model *)

MaxTurns == 2
MaxChats == 1
MaxClock == 1

(* Literals of the program *)

SummaryThreshold == 10
ContextTail == 5
GeneralTail == 10
MaxArticles == 10
HTTP_OK == 200

\* Session ids: each session starts once and ends once.
Sessions == {1, 2, 3}
Variants == {"chat", "chatlit"}

----------------------------------------------------------------------------
(* Sequences and texts *)

Max(a, b) == IF a >= b THEN a ELSE b
Min(a, b) == IF a <= b THEN a ELSE b

\* seq[-n:]
LastN(seq, n) == SubSeq(seq, Max(1, Len(seq) - n + 1), Len(seq))

\* seq[:n]
FirstN(seq, n) == SubSeq(seq, 1, Min(n, Len(seq)))

IsPrefix(p, q) == Len(p) <= Len(q) /\ SubSeq(q, 1, Len(p)) = p

\* sep.join(lines), lines a sequence of texts
RECURSIVE Join(_, _)
Join(sep, lines) ==
    IF lines = <<>> THEN <<>>
    ELSE IF Len(lines) = 1 THEN lines[1]
    ELSE lines[1] \o sep \o Join(sep, Tail(lines))

Digits == <<"0", "1", "2", "3", "4", "5", "6", "7", "8", "9">>

\* str(n) of a natural number, as in an f-string
RECURSIVE IntToText(_)
IntToText(n) ==
    IF n < 10 THEN <<Digits[n + 1]>>
    ELSE IntToText(n \div 10) \o <<Digits[(n % 10) + 1]>>

Whitespace == {" ", "\t", "\n", "\r"}

RECURSIVE LStrip(_)
LStrip(t) == IF t # <<>> /\ Head(t) \in Whitespace THEN LStrip(Tail(t)) ELSE t

RECURSIVE RStrip(_)
RStrip(t) ==
    IF t # <<>> /\ t[Len(t)] \in Whitespace THEN RStrip(SubSeq(t, 1, Len(t) - 1)) ELSE t

\* str.strip()
Strip(t) == RStrip(LStrip(t))

UpperChars == <<"A", "B", "C", "D", "E", "F", "G", "H", "I", "J", "K", "L", "M",
                "N", "O", "P", "Q", "R", "S", "T", "U", "V", "W", "X", "Y", "Z">>
LowerChars == <<"a", "b", "c", "d", "e", "f", "g", "h", "i", "j", "k", "l", "m",
                "n", "o", "p", "q", "r", "s", "t", "u", "v", "w", "x", "y", "z">>

LowerChar(c) ==
    IF \E i \in 1..Len(UpperChars) : UpperChars[i] = c
    THEN LowerChars[CHOOSE i \in 1..Len(UpperChars) : UpperChars[i] = c]
    ELSE c

\* str.lower()
Lower(t) == [i \in 1..Len(t) |-> LowerChar(t[i])]

----------------------------------------------------------------------------
(* Messages and the archive file *)

Msg(role, content) == [role |-> role, content |-> content]
NoMsg == Msg("", <<>>)

Record(ts, session) == [timestamp |-> ts, session |-> session]

\* The file's text is a sequence of JSON tokens.
Tok(t, ts, msg) == [t |-> t, ts |-> ts, msg |-> msg]
LBracket == Tok("[", 0, NoMsg)
RBracket == Tok("]", 0, NoMsg)
LBrace == Tok("{", 0, NoMsg)
RBrace == Tok("}", 0, NoMsg)
TsTok(ts) == Tok("timestamp", ts, NoMsg)
MsgTok(m) == Tok("msg", 0, m)

DumpSession(session) ==
    <<LBracket>> \o [i \in 1..Len(session) |-> MsgTok(session[i])] \o <<RBracket>>

DumpRecord(r) == <<LBrace, TsTok(r.timestamp)>> \o DumpSession(r.session) \o <<RBrace>>

RECURSIVE DumpRecords(_)
DumpRecords(all) ==
    IF all = <<>> THEN <<>> ELSE DumpRecord(Head(all)) \o DumpRecords(Tail(all))

\* json.dump(all_history, f, indent=2)
json_dump(all) == <<LBracket>> \o DumpRecords(all) \o <<RBracket>>

ParseFail == [ok |-> FALSE, next |-> 0, value |-> <<>>]

RECURSIVE ParseMsgs(_, _, _)
ParseMsgs(text, i, acc) ==
    IF i > Len(text) THEN ParseFail
    ELSE IF text[i].t = "msg" THEN ParseMsgs(text, i + 1, Append(acc, text[i].msg))
    ELSE IF text[i].t = "]" THEN [ok |-> TRUE, next |-> i + 1, value |-> acc]
    ELSE ParseFail

RECURSIVE ParseRecords(_, _, _)
ParseRecords(text, i, acc) ==
    IF i > Len(text) THEN ParseFail
    ELSE IF text[i].t = "]"
         THEN IF i = Len(text) THEN [ok |-> TRUE, next |-> i + 1, value |-> acc]
              ELSE ParseFail
    ELSE IF /\ text[i].t = "{"
            /\ i + 2 <= Len(text)
            /\ text[i + 1].t = "timestamp"
            /\ text[i + 2].t = "["
         THEN LET m == ParseMsgs(text, i + 3, <<>>) IN
              IF m.ok /\ m.next <= Len(text) /\ text[m.next].t = "}"
              THEN ParseRecords(text, m.next + 1,
                                Append(acc, Record(text[i + 1].ts, m.value)))
              ELSE ParseFail
    ELSE ParseFail

\* json.load(f): ok = FALSE stands for json.JSONDecodeError
json_load(text) ==
    IF text # <<>> /\ text[1].t = "[" THEN ParseRecords(text, 2, <<>>) ELSE ParseFail

Absent == [exists |-> FALSE, text |-> <<>>]
FileOf(text) == [exists |-> TRUE, text |-> text]

----------------------------------------------------------------------------
(* External collaborators: what they are asked and what they answer *)

\* the completion client of each variant
Client(v) == IF v = "chat" THEN "agents.Runner.run_sync" ELSE "litellm.completion"

Completion(v, site, messages) ==
    [kind |-> "completion", client |-> Client(v), site |-> site,
     url |-> <<>>, messages |-> messages]

HttpGet(url) ==
    [kind |-> "http_get", client |-> "requests.get", site |-> "get_real_news",
     url |-> url, messages |-> <<>>]

\* A completion returns a text or raises.
Ok(t) == [ok |-> TRUE, out |-> t]
Fail == [ok |-> FALSE, out |-> <<>>]

\* What a function hands back: the requests it issued, whether it raised, its value.
Returned(cs, v) == [calls |-> cs, raised |-> FALSE, value |-> v]
Raised(cs) == [calls |-> cs, raised |-> TRUE, value |-> <<>>]

\* The HTTP response of the news provider, or a transport exception.
Article(hastitle, title) == [hastitle |-> hastitle, title |-> title]

Response(status, json, hasmsg, message, articles) ==
    [exc |-> FALSE, excmsg |-> <<>>, status |-> status, json |-> json,
     hasmsg |-> hasmsg, message |-> message, articles |-> articles]

TransportError(msg) ==
    [exc |-> TRUE, excmsg |-> msg, status |-> 0, json |-> "invalid",
     hasmsg |-> FALSE, message |-> "", articles |-> <<>>]

NoResponse == TransportError(<<>>)

----------------------------------------------------------------------------
(* get_real_news *)

NEWS_API_KEY == "NEWS_API_KEY"

\* chatlit.py only: category_mapping.get(category, category)
category_mapping(category) ==
    CASE category = "tech" -> "technology"
      [] category = "finance" -> "business"
      [] category = "health" -> "health"
      [] OTHER -> category

EverythingUrl(q) ==
    <<"https://newsapi.org/v2/everything?q=", q, "&apiKey=", NEWS_API_KEY,
      "&language=en&sortBy=publishedAt">>

TopHeadlinesUrl(category) ==
    <<"https://newsapi.org/v2/top-headlines?category=", category, "&apiKey=",
      NEWS_API_KEY, "&language=en">>

NewsUrl(v, category) ==
    IF v = "chat"
    THEN IF category = "cryptocurrency" THEN EverythingUrl(category)
         ELSE TopHeadlinesUrl(category)
    ELSE TopHeadlinesUrl(category_mapping(category))

\* str(e) of the exception response.json() raises on a body that is no JSON
JsonErrorText == <<"Expecting value: line 1 column 1 (char 0)">>

FetchFailed(e) == <<"Failed to fetch news: ">> \o e

HttpFailed(status, message) ==
    <<"Failed to fetch news: HTTP ">> \o IntToText(status) \o <<" - ", message>>

RECURSIVE TitleLines(_)
TitleLines(articles) ==
    IF articles = <<>> THEN <<>>
    ELSE IF Head(articles).hastitle
         THEN <<(<<"- ", Head(articles).title>>)>> \o TitleLines(Tail(articles))
         ELSE TitleLines(Tail(articles))

\* the try block: what the function returns for a response
NewsText(resp) ==
    IF resp.exc THEN FetchFailed(resp.excmsg)
    ELSE IF resp.status # HTTP_OK
         THEN IF resp.json = "invalid" THEN FetchFailed(JsonErrorText)
              ELSE HttpFailed(resp.status,
                              IF resp.hasmsg THEN resp.message ELSE "Unknown error")
    ELSE IF resp.json = "invalid" THEN FetchFailed(JsonErrorText)
    ELSE Join(<<"\n">>, TitleLines(FirstN(resp.articles, MaxArticles)))

get_real_news(v, category, resp) ==
    Returned(<<HttpGet(NewsUrl(v, category))>>, NewsText(resp))

----------------------------------------------------------------------------
(* summarize_history, summarize_with_llm *)

SummarizeInstr ==
    <<"Summarize the following conversation history concisely, focusing on key details like the user's name, preferences, or previous search topics.">>

HistoryLines(history) ==
    [i \in 1..Len(history) |-> <<history[i].role, ": ">> \o history[i].content]

summarize_history(v, history, r) ==
    IF history = <<>> THEN Returned(<<>>, <<>>)
    ELSE LET prompt == <<Msg("system", SummarizeInstr),
                         Msg("user", Join(<<"\n">>, HistoryLines(history)))>>
             cs == <<Completion(v, "summarize_history", prompt)>>
         IN IF r.ok THEN Returned(cs, r.out) ELSE Raised(cs)

\* HistorySummary with the threshold off by one: len(history) >= 10
HistorySummaryFrom10(v, history, r) ==
    IF Len(history) >= SummaryThreshold THEN summarize_history(v, history, r)
    ELSE Returned(<<>>, <<>>)

\* summarize_history(history) if len(history) > 10 else ""
HistorySummary(v, history, r) ==
    IF Len(history) > SummaryThreshold THEN summarize_history(v, history, r)
    ELSE Returned(<<>>, <<>>)

\* ( "..." "..." f"\nConversation history summary: {history_summary}"
\*   if history_summary else "" ): the adjacent literals are one string, and the
\* conditional expression chooses between that whole string and "".
SystemContent(instructions, history_summary) ==
    IF history_summary # <<>>
    THEN instructions \o <<"\nConversation history summary: ">> \o history_summary
    ELSE <<>>

NewsInstr(category) ==
    <<"You are a smart news assistant. Summarize the following ", category,
      " news for a user. ",
      "Use the conversation history summary to tailor the response if relevant.">>

summarize_with_llm(v, news_text, category, history, rsum, rans) ==
    LET hs == HistorySummary(v, history, rsum) IN
    IF hs.raised THEN Raised(hs.calls)
    ELSE LET prompt == <<Msg("system", SystemContent(NewsInstr(category), hs.value)),
                         Msg("user", news_text)>> \o LastN(history, ContextTail)
             cs == hs.calls \o <<Completion(v, "summarize_with_llm", prompt)>>
         IN IF rans.ok THEN Returned(cs, rans.out) ELSE Raised(cs)

----------------------------------------------------------------------------
(* main: one turn *)

NEWS_TECH == <<"n", "e", "w", "s", "-", "t", "e", "c", "h">>
NEWS_HEALTH == <<"n", "e", "w", "s", "-", "h", "e", "a", "l", "t", "h">>
NEWS_BUSINESS == <<"n", "e", "w", "s", "-", "b", "u", "s", "i", "n", "e", "s", "s">>
NEWS_CRYPTO == <<"n", "e", "w", "s", "-", "c", "r", "y", "p", "t", "o">>
GENERAL == <<"g", "e", "n", "e", "r", "a", "l">>

valid_categories ==
    [t \in {NEWS_TECH, NEWS_HEALTH, NEWS_BUSINESS, NEWS_CRYPTO} |->
        CASE t = NEWS_TECH -> "technology"
          [] t = NEWS_HEALTH -> "health"
          [] t = NEWS_BUSINESS -> "business"
          [] t = NEWS_CRYPTO -> "cryptocurrency"]

ClassifyInstr ==
    <<"Classify the user's message based on the conversation history and current input:\n",
      "- If the user wants the **latest news**, classify it as one of: 'news-tech', 'news-health', 'news-business', 'news-crypto'.\n",
      "- If the user is asking a **general question** (e.g., definition, explanation, or follow-up like 'What was my last search?'), return 'general'.\n",
      "Consider the conversation history to identify follow-up questions or context (e.g., user's name or previous searches).\n",
      "Examples:\n",
      "- 'What is an ulcer?' -> general\n",
      "- 'Tell me the latest about crypto' -> news-crypto\n",
      "- 'Explain AI' -> general\n",
      "- 'Any business updates?' -> news-business\n",
      "- 'What was my last news search?' -> general\n">>

GeneralInstr ==
    <<"You are a helpful assistant. Answer the user's question based on the conversation history provided below. ",
      "If the user asks about information from previous messages (e.g., their name or past searches), use the history to respond accurately.">>

\* Topic without lower(): the output is only trimmed
TopicStripped(raw) == Strip(raw)

\* result.final_output.strip().lower()
Topic(raw) == Lower(Strip(raw))

\* f"[newspaper emoji] Here is the latest **{category}** news:\n\n{summary}"
NewsReply(category, summary) ==
    <<"Here is the latest **", category, "** news:\n\n">> \o summary

\* What one handler invocation leaves behind: the session history, the requests
\* issued, the messages sent to the user, whether an exception left the handler.
Outcome(history, cs, out, exc) ==
    [history |-> history, calls |-> cs, sent |-> out, raised |-> exc]

\* Step 2 of main, the news path
NewsPath(v, history, category, o, before) ==
    LET news == get_real_news(v, category, o.news)
        sm == summarize_with_llm(v, news.value, category, history, o.sum2, o.ans)
        cs == before \o news.calls \o sm.calls
    IN IF sm.raised THEN Outcome(history, cs, <<>>, TRUE)
       ELSE LET response == NewsReply(category, sm.value) IN
            Outcome(Append(history, Msg("assistant", response)), cs, <<response>>, FALSE)

\* GeneralPath with the completion's failure caught and answered as a reply
GeneralPathCaught(v, history, o, before) ==
    LET hs == HistorySummary(v, history, o.sum2)
        prompt == <<Msg("system", SystemContent(GeneralInstr, hs.value))>>
                  \o LastN(history, GeneralTail)
        cs == before \o hs.calls \o <<Completion(v, "general", prompt)>>
        response == IF hs.raised \/ ~o.ans.ok THEN <<"Sorry, something went wrong.">>
                    ELSE o.ans.out
    IN Outcome(Append(history, Msg("assistant", response)), cs, <<response>>, FALSE)

\* Step 3 of main, the general path
GeneralPath(v, history, o, before) ==
    LET hs == HistorySummary(v, history, o.sum2) IN
    IF hs.raised THEN Outcome(history, before \o hs.calls, <<>>, TRUE)
    ELSE LET prompt == <<Msg("system", SystemContent(GeneralInstr, hs.value))>>
                         \o LastN(history, GeneralTail)
             cs == before \o hs.calls \o <<Completion(v, "general", prompt)>>
         IN IF o.ans.ok
            THEN Outcome(Append(history, Msg("assistant", o.ans.out)), cs,
                         <<o.ans.out>>, FALSE)
            ELSE Outcome(history, cs, <<>>, TRUE)

ClassificationPrompt(history, content, history_summary) ==
    <<Msg("system", SystemContent(ClassifyInstr, history_summary))>>
    \o LastN(history, ContextTail) \o <<Msg("user", content)>>

\* main(message) of variant v on the session history old, the collaborators
\* answering as o says
on_message(v, old, content, o) ==
    LET history == Append(old, Msg("user", content))
        hs == HistorySummary(v, history, o.sum1)
    IN IF hs.raised THEN Outcome(history, hs.calls, <<>>, TRUE)
       ELSE LET prompt == ClassificationPrompt(history, content, hs.value)
                cs == hs.calls \o <<Completion(v, "classify", prompt)>>
            IN IF ~o.cls.ok THEN Outcome(history, cs, <<>>, TRUE)
               ELSE LET topic == Topic(o.cls.out) IN
                    IF topic \in DOMAIN valid_categories
                    THEN NewsPath(v, history, valid_categories[topic], o, cs)
                    ELSE GeneralPath(v, history, o, cs)

----------------------------------------------------------------------------
(* What the collaborators may answer in one turn *)

ClassifierOutputs ==
    { NEWS_TECH,
      <<" ", "N", "e", "w", "s", "-", "T", "e", "c", "h", "\n">>,
      <<"N", "E", "W", "S", "-", "H", "E", "A", "L", "T", "H">>,
      NEWS_BUSINESS \o <<" ">>,
      <<"\t">> \o NEWS_CRYPTO,
      GENERAL,
      <<"G", "e", "n", "e", "r", "a", "l", "\n">>,
      <<>>,
      <<"n", "e", "w", "s", "-", "s", "p", "o", "r", "t", "s">>,
      <<"n", "e", "w", "s", " ", "t", "e", "c", "h">>,
      NEWS_TECH \o <<".">> }

SummaryTexts == {<<>>, <<"summary">>}
AnswerTexts == {<<"answer">>}
UserMessages == {<<"question">>}

\* more than MaxArticles articles, the second without a title
ManyArticles ==
    [i \in 1..(MaxArticles + 2) |-> Article(i # 2, Digits[(i % 10) + 1])]

NewsResponses ==
    { Response(HTTP_OK, "object", FALSE, "", ManyArticles),
      Response(HTTP_OK, "object", FALSE, "", <<>>),
      Response(401, "object", TRUE, "Your API key is invalid", <<>>),
      Response(500, "object", FALSE, "", <<>>),
      Response(502, "invalid", FALSE, "", <<>>),
      TransportError(<<"Connection refused">>) }

Answers(texts) == {Ok(t) : t \in texts} \cup {Fail}

Oracle(sum1, cls, news, sum2, ans) ==
    [sum1 |-> sum1, cls |-> cls, news |-> news, sum2 |-> sum2, ans |-> ans]

Unasked == [ok |-> FALSE, out |-> <<"(not asked)">>]

\* The answers a turn may get when its history has n entries after the user's
\* message, the classifier answering from raws, the summarizer from sums and the
\* news provider from responses; a collaborator that is not asked has the answer
\* Unasked / NoResponse.
OraclesOf(n, raws, sums, responses) ==
    LET long == n > SummaryThreshold
        Sums == IF long THEN {Ok(t) : t \in sums} ELSE {Unasked}
        News(c) == IF Topic(c.out) \in DOMAIN valid_categories
                   THEN responses ELSE {NoResponse}
        Stop1 == IF long THEN {Oracle(Fail, Unasked, NoResponse, Unasked, Unasked)} ELSE {}
        Stop2 == {Oracle(s1, Fail, NoResponse, Unasked, Unasked) : s1 \in Sums}
        Stop3(c) == IF long
                    THEN {Oracle(s1, c, nw, Fail, Unasked) : s1 \in Sums, nw \in News(c)}
                    ELSE {}
        Go(c) == {Oracle(s1, c, nw, s2, a) :
                     s1 \in Sums, nw \in News(c), s2 \in Sums, a \in Answers(AnswerTexts)}
    IN Stop1 \cup Stop2 \cup UNION {Stop3(Ok(raw)) \cup Go(Ok(raw)) : raw \in raws}

Oracles(n) == OraclesOf(n, ClassifierOutputs, SummaryTexts, NewsResponses)

\* A few of them: enough to take each path of a turn and to fail it
PlainOracles(n) ==
    OraclesOf(n, {NEWS_CRYPTO, GENERAL}, {<<"summary">>},
              {Response(401, "object", TRUE, "Your API key is invalid", <<>>)})

NoOracle == Oracle(Unasked, Unasked, NoResponse, Unasked, Unasked)

----------------------------------------------------------------------------
(* The state *)

Question == Msg("user", <<"question">>)
Answer == Msg("assistant", <<"answer">>)

ShortSession == <<Question, Answer>>
LongSession == <<Question, Answer, Question, Answer, Question, Answer,
                 Question, Answer, Msg("user", <<"another question">>),
                 Msg("assistant", <<"another answer">>)>>

\* What chat_history.json may hold when the program starts: nothing, a file cut
\* short by an interrupted write, or an archive earlier sessions wrote.
SmallFiles ==
    { Absent,
      FileOf(<<>>),
      FileOf(SubSeq(json_dump(<<Record(0, ShortSession)>>), 1, 4)),
      FileOf(json_dump(<<>>)),
      FileOf(json_dump(<<Record(0, ShortSession)>>)) }

\* the same, and archives whose last session is 9 and 10 messages long
InitFiles ==
    SmallFiles \cup
    { FileOf(json_dump(<<Record(0, ShortSession),
                         Record(0, SubSeq(LongSession, 1, Len(LongSession) - 1))>>)),
      FileOf(json_dump(<<Record(0, ShortSession), Record(0, LongSession)>>)) }

Handled(op, s, f, history, content, o) ==
    [op |-> op, s |-> s, file |-> f, history |-> history, content |-> content, o |-> o]

InitWith(files) ==
    /\ variant \in Variants
    /\ file \in files
    /\ pc = [s \in Sessions |-> "none"]
    /\ chat_history = [s \in Sessions |-> <<>>]
    /\ all_history = [s \in Sessions |-> <<>>]
    /\ resumed = [s \in Sessions |-> <<>>]
    /\ last = Handled("none", 0, Absent, <<>>, <<>>, NoOracle)
    /\ calls = <<>>
    /\ sent = <<>>
    /\ raised = FALSE
    /\ now = 0
    /\ turns = 0

Init == InitWith(InitFiles)

\* archives of short sessions, for the specifications of several sessions
InitArchive ==
    InitWith(SmallFiles \cup
             {FileOf(json_dump(<<Record(0, ShortSession),
                                 Record(0, SubSeq(LongSession, 7, 10))>>))})

\* fewer files, for the specification whose steps interleave
InitConc == InitWith({Absent, FileOf(json_dump(<<Record(0, ShortSession)>>))})

----------------------------------------------------------------------------
(* start *)

Greeting ==
    <<"Hi! Ask me about tech, health, business, or crypto news, or tell me something about yourself!">>

\* MostRecent taking the first record: all_history[0]["session"]
Oldest(all) == all[1].session

\* the most recent session's history: all_history[-1]["session"]
MostRecent(all) == all[Len(all)].session

\* the history start() loads from the file
LoadHistory(f) ==
    IF ~f.exists THEN <<>>
    ELSE LET j == json_load(f.text) IN
         IF ~j.ok THEN <<>>
         ELSE IF j.value # <<>> THEN MostRecent(j.value)
         ELSE <<>>

Idle == Handled("none", 0, Absent, <<>>, <<>>, NoOracle)

\* The handler invocation is over: the host has the reply or the exception.
returned ==
    /\ last # Idle
    /\ last' = Idle
    /\ calls' = <<>>
    /\ sent' = <<>>
    /\ raised' = FALSE
    /\ UNCHANGED <<variant, file, pc, chat_history, all_history, resumed, now, turns>>

start(s) ==
    /\ last = Idle
    /\ pc[s] = "none"
    /\ pc' = [pc EXCEPT ![s] = "active"]
    /\ chat_history' = [chat_history EXCEPT ![s] = LoadHistory(file)]
    /\ resumed' = [resumed EXCEPT ![s] = LoadHistory(file)]
    /\ last' = Handled("start", s, file, chat_history[s], <<>>, NoOracle)
    /\ calls' = <<>>
    /\ sent' = <<Greeting>>
    /\ raised' = FALSE
    /\ UNCHANGED <<variant, file, all_history, now, turns>>

----------------------------------------------------------------------------
(* main *)

\* main(message) in session s, the collaborators answering from oracles
Turn(s, oracles, bound) ==
    /\ last = Idle
    /\ pc[s] = "active"
    /\ turns < bound
    /\ \E content \in UserMessages :
       \E o \in oracles :
          LET r == on_message(variant, chat_history[s], content, o) IN
          /\ chat_history' = [chat_history EXCEPT ![s] = r.history]
          /\ calls' = r.calls
          /\ sent' = r.sent
          /\ raised' = r.raised
          /\ last' = Handled("main", s, file, chat_history[s], content, o)
    /\ turns' = turns + 1
    /\ UNCHANGED <<variant, file, pc, all_history, resumed, now>>

main(s) == Turn(s, Oracles(Len(chat_history[s]) + 1), MaxTurns)

chat(s) == Turn(s, PlainOracles(Len(chat_history[s]) + 1), MaxChats)

----------------------------------------------------------------------------
(* end *)

\* the "Load old history if file exists" block
LoadArchive(f) ==
    IF f.exists
    THEN LET j == json_load(f.text) IN IF j.ok THEN j.value ELSE <<>>
    ELSE <<>>

\* AppendSession that starts a new list: all_history = [{...}]
AppendSessionOnly(all, ts, history) == <<Record(ts, history)>>

\* all_history.append({"timestamp": ..., "session": history})
AppendSession(all, ts, history) == Append(all, Record(ts, history))

\* datetime.now(): the clock does not run backwards
Clock == {t \in now..(now + 1) : t <= MaxClock}

\* end_empty without the early return: the empty history is saved too
end_empty_saved(s) ==
    /\ last = Idle
    /\ pc[s] = "active"
    /\ chat_history[s] = <<>>
    /\ all_history' = [all_history EXCEPT
                          ![s] = AppendSession(LoadArchive(file), now, chat_history[s])]
    /\ file' = FileOf(json_dump(all_history'[s]))
    /\ pc' = [pc EXCEPT ![s] = "ended"]
    /\ last' = Handled("end", s, file, chat_history[s], <<>>, NoOracle)
    /\ calls' = <<>>
    /\ sent' = <<>>
    /\ raised' = FALSE
    /\ UNCHANGED <<variant, chat_history, resumed, now, turns>>

\* end() of a session whose history is empty: return
end_empty(s) ==
    /\ last = Idle
    /\ pc[s] = "active"
    /\ chat_history[s] = <<>>
    /\ pc' = [pc EXCEPT ![s] = "ended"]
    /\ last' = Handled("end", s, file, chat_history[s], <<>>, NoOracle)
    /\ calls' = <<>>
    /\ sent' = <<>>
    /\ raised' = FALSE
    /\ UNCHANGED <<variant, file, chat_history, all_history, resumed, now, turns>>

\* end() run without interruption
end_save(s) ==
    /\ last = Idle
    /\ pc[s] = "active"
    /\ chat_history[s] # <<>>
    /\ \E ts \in Clock :
          /\ now' = ts
          /\ all_history' = [all_history EXCEPT
                                ![s] = AppendSession(LoadArchive(file), ts, chat_history[s])]
    /\ file' = FileOf(json_dump(all_history'[s]))
    /\ pc' = [pc EXCEPT ![s] = "ended"]
    /\ last' = Handled("end", s, file, chat_history[s], <<>>, NoOracle)
    /\ calls' = <<>>
    /\ sent' = <<>>
    /\ raised' = FALSE
    /\ UNCHANGED <<variant, chat_history, resumed, turns>>

----------------------------------------------------------------------------
(* end, step by step: the file is read, then opened for writing, which empties
   it, then written *)

end_read(s) ==
    /\ last = Idle
    /\ pc[s] = "active"
    /\ chat_history[s] # <<>>
    /\ all_history' = [all_history EXCEPT ![s] = LoadArchive(file)]
    /\ pc' = [pc EXCEPT ![s] = "loaded"]
    /\ last' = Handled("end", s, file, chat_history[s], <<>>, NoOracle)
    /\ calls' = <<>>
    /\ sent' = <<>>
    /\ raised' = FALSE
    /\ UNCHANGED <<variant, file, chat_history, resumed, now, turns>>

end_open(s) ==
    /\ pc[s] = "loaded"
    /\ \E ts \in Clock :
          /\ now' = ts
          /\ all_history' = [all_history EXCEPT
                                ![s] = AppendSession(all_history[s], ts, chat_history[s])]
    /\ file' = FileOf(<<>>)
    /\ pc' = [pc EXCEPT ![s] = "opened"]
    /\ UNCHANGED <<variant, chat_history, resumed, last, calls, sent, raised, turns>>

\* end_dump that adds its record to what the file holds when it writes
end_dump_merged(s) ==
    /\ pc[s] = "opened"
    /\ file' = FileOf(json_dump(Append(LoadArchive(file),
                                       all_history[s][Len(all_history[s])])))
    /\ pc' = [pc EXCEPT ![s] = "ended"]
    /\ UNCHANGED <<variant, chat_history, all_history, resumed, last, calls, sent,
                   raised, now, turns>>

end_dump(s) ==
    /\ pc[s] = "opened"
    /\ file' = FileOf(json_dump(all_history[s]))
    /\ pc' = [pc EXCEPT ![s] = "ended"]
    /\ UNCHANGED <<variant, chat_history, all_history, resumed, last, calls, sent,
                   raised, now, turns>>

----------------------------------------------------------------------------
(* The specifications *)

\* the turns of one session, every answer of the collaborators
Next == start(1) \/ main(1) \/ returned

Spec == Init /\ [][Next]_vars

\* the sessions of one process: each handler runs without interruption
NextArchive ==
    \/ \E s \in Sessions : start(s) \/ chat(s) \/ end_empty(s) \/ end_save(s)
    \/ returned

SpecArchive == InitArchive /\ [][NextArchive]_vars

\* the sessions of several processes on one chat_history.json: the steps of
\* their end() interleave
NextConc ==
    \/ \E s \in {1, 2} :
          start(s) \/ chat(s) \/ end_empty(s) \/ end_read(s) \/ end_open(s) \/ end_dump(s)
    \/ returned

SpecConc == InitConc /\ [][NextConc]_vars

----------------------------------------------------------------------------
(* What the latest handler invocation did *)

InTurn == last.op = "main"

\* the indices of the requests issued at a call site
At(site) == {i \in 1..Len(calls) : calls[i].site = site}

\* the user's message as main() appended it, and the history it was appended to
UserMsg == Msg("user", last.content)
Extended == Append(last.history, UserMsg)

\* the classifier was asked and answered
Classified == InTurn /\ last.o.cls.ok

\* the label set, and the category of each label
Labels == {NEWS_TECH, NEWS_HEALTH, NEWS_BUSINESS, NEWS_CRYPTO}

CategoryOf(label) ==
    CASE label = NEWS_TECH -> "technology"
      [] label = NEWS_HEALTH -> "health"
      [] label = NEWS_BUSINESS -> "business"
      [] label = NEWS_CRYPTO -> "cryptocurrency"

Normalised == Lower(Strip(last.o.cls.out))

----------------------------------------------------------------------------
\* C1: in every turn the classifier's output is trimmed and lower-cased before
\* it is looked up: the turn fetches news exactly when the normalised output is
\* one of the four news labels, the fetch and the reply's prefix then name the
\* label's category, and every other output takes the general path.
C1_Routing ==
    Classified =>
        IF Normalised \in Labels
        THEN /\ Cardinality(At("get_real_news")) = 1
             /\ At("general") = {}
             /\ \A i \in At("get_real_news") : calls[i].url[2] = CategoryOf(Normalised)
             /\ ~raised =>
                   /\ At("summarize_with_llm") # {}
                   /\ SubSeq(sent[1], 1, 3) =
                         <<"Here is the latest **", CategoryOf(Normalised), "** news:\n\n">>
        ELSE /\ At("get_real_news") = {}
             /\ At("summarize_with_llm") = {}
             /\ ~raised => At("general") # {}

\* a turn whose classifier output needed trimming and lower-casing took the news path
C1_Witness ==
    /\ Classified
    /\ ~raised
    /\ last.o.cls.out # Normalised
    /\ Normalised = NEWS_TECH
    /\ At("get_real_news") # {}

----------------------------------------------------------------------------
SummaryLabel == "\nConversation history summary: "

\* the system message's content of the request calls[i]
SystemOf(i) == calls[i].messages[1].content

\* the history summary the classification step got ("" when it asked for none)
Summary1 == IF last.o.sum1.ok THEN last.o.sum1.out ELSE <<>>

\* C2: in every turn the system message of the classification prompt holds
\* the label vocabulary and the worked examples, whatever the history; the
\* history summary is added to that text when it is not empty.
C2_PromptVocabulary ==
    InTurn =>
        \A i \in At("classify") :
            SystemOf(i) = ClassifyInstr \o (IF Summary1 # <<>>
                                            THEN <<SummaryLabel>> \o Summary1
                                            ELSE <<>>)

----------------------------------------------------------------------------
\* the history-summary requests of the classification step, and those of the
\* step that follows it (news summarization or general answering)
SummaryCalls1 == {i \in At("summarize_history") : \A j \in At("classify") : i < j}
SummaryCalls2 == {i \in At("summarize_history") : \E j \in At("classify") : i > j}

\* some prompt of the turn carries a history summary
SummaryInPrompt ==
    \E i \in 1..Len(calls) : \E k \in 1..Len(calls[i].messages) :
        \E n \in 1..Len(calls[i].messages[k].content) :
            calls[i].messages[k].content[n] = SummaryLabel

\* C3: a step of a turn asks for no history summary and has none in its prompt
\* when the history, the user's message included, has at most 10 entries, and
\* asks for exactly one when it has more.
C3_SummaryCalls ==
    InTurn =>
        IF Len(Extended) <= 10
        THEN At("summarize_history") = {} /\ ~SummaryInPrompt
        ELSE /\ Cardinality(SummaryCalls1) = 1
             /\ Cardinality(SummaryCalls2) = (IF Classified THEN 1 ELSE 0)

\* a turn on a history of more than 10 entries that asked for both summaries
C3_Witness ==
    /\ InTurn
    /\ ~raised
    /\ Len(Extended) > 10
    /\ Cardinality(At("summarize_history")) = 2

----------------------------------------------------------------------------
\* the news text handed to summarize_with_llm, in the request calls[i]
NewsTextOf(i) == calls[i].messages[2].content

\* C6: for every HTTP status other than 200, whatever the body, the news text
\* is "Failed to fetch news: HTTP <status> - <message>", and a news-path turn
\* hands that text unchanged to summarize_with_llm.
C6_FailureString ==
    (Classified /\ At("get_real_news") # {} /\ ~last.o.news.exc
        /\ last.o.news.status # 200) =>
        \A i \in At("summarize_with_llm") :
            /\ Len(NewsTextOf(i)) = Len(IntToText(last.o.news.status)) + 3
            /\ NewsTextOf(i)[1] = "Failed to fetch news: HTTP "
            /\ SubSeq(NewsTextOf(i), 2, Len(NewsTextOf(i)) - 2)
                  = IntToText(last.o.news.status)
            /\ NewsTextOf(i)[Len(NewsTextOf(i)) - 1] = " - "

----------------------------------------------------------------------------
OtherVariant == IF variant = "chat" THEN "chatlit" ELSE "chat"

\* the requests, the completion client left out
Clientless(cs) == [i \in 1..Len(cs) |-> [cs[i] EXCEPT !.client = ""]]

\* the same turn, run by the other variant
OtherTurn == on_message(OtherVariant, last.history, last.content, last.o)

\* C7: the two variants differ only in the completion client: on the same
\* history, message and answers they issue the same requests, the keyword
\* search for the category cryptocurrency and the headlines by category for
\* the others, and leave the same reply and history.
C7_SameRequests ==
    InTurn =>
        /\ Clientless(calls) = Clientless(OtherTurn.calls)
        /\ sent = OtherTurn.sent
        /\ chat_history[last.s] = OtherTurn.history
        /\ \A i \in At("get_real_news") :
              calls[i].url[1] = (IF calls[i].url[2] = "cryptocurrency"
                                 THEN "https://newsapi.org/v2/everything?q="
                                 ELSE "https://newsapi.org/v2/top-headlines?category=")

----------------------------------------------------------------------------
\* a completion the turn asked for failed
CompletionFailed == \E r \in {last.o.sum1, last.o.cls, last.o.sum2, last.o.ans} : r = Fail

\* C9: a turn only appends to the session history: one that completes leaves
\* the old history, the user's message and the reply, in that order, the reply
\* appended after the classification and the path's completion were asked; one
\* in which a completion fails raises, sends nothing and leaves the old
\* history and the user's message.
C9_AppendOnly ==
    InTurn =>
        /\ raised <=> CompletionFailed
        /\ raised =>
              /\ sent = <<>>
              /\ chat_history[last.s] = last.history \o <<UserMsg>>
        /\ ~raised =>
              /\ Len(sent) = 1
              /\ chat_history[last.s] =
                    last.history \o <<UserMsg, Msg("assistant", sent[1])>>
              /\ At("classify") # {}
              /\ calls[Len(calls)].site \in {"summarize_with_llm", "general"}

\* a turn whose answering completion failed after the classification
C9_Witness ==
    /\ Classified
    /\ raised
    /\ last.o.ans = Fail
    /\ last.history # <<>>
    /\ chat_history[last.s] = last.history \o <<UserMsg>>

----------------------------------------------------------------------------
\* the records of an archive file: none when it is absent or malformed
Records(f) == IF f.exists /\ json_load(f.text).ok THEN json_load(f.text).value ELSE <<>>

Parses(f) == f.exists /\ json_load(f.text).ok

Front(seq) == SubSeq(seq, 1, Len(seq) - 1)
Final(seq) == seq[Len(seq)]

Started == last.op = "start"
Ended == last.op = "end"

\* C4: the archive is append-only: a save of a non-empty session history
\* leaves the records the file held, in their order, and adds one record at
\* the end whose session is that history; the file reads back as written.
C4_AppendOnly ==
    (Ended /\ last.history # <<>>) =>
        /\ Parses(file)
        /\ Len(Records(file)) = Len(Records(last.file)) + 1
        /\ Front(Records(file)) = Records(last.file)
        /\ Final(Records(file)).session = last.history

\* the third session has saved: the archive holds the records of three saves
\* after the two it held
C4_Witness ==
    /\ Ended
    /\ \A s \in Sessions : pc[s] = "ended"
    /\ Len(Records(last.file)) >= 2
    /\ Len(Records(file)) = Len(Records(last.file)) + 1
    /\ \E i \in 1..Len(Records(file)) : Records(file)[i].session # last.history

----------------------------------------------------------------------------
\* C8: start() sets the session history from the archive file and raises
\* nothing: the empty history when the file is absent, malformed or an empty
\* array, and else the session of the file's last record.
C8_Resume ==
    Started =>
        /\ ~raised
        /\ chat_history[last.s] =
              (IF ~last.file.exists THEN <<>>
               ELSE IF ~json_load(last.file.text).ok THEN <<>>
               ELSE IF Len(json_load(last.file.text).value) = 0 THEN <<>>
               ELSE json_load(last.file.text).value[
                        Len(json_load(last.file.text).value)].session)

\* a session started on an archive of several records with different sessions
C8_Witness ==
    /\ Started
    /\ Len(Records(last.file)) >= 2
    /\ Records(last.file)[1].session # Final(Records(last.file)).session
    /\ chat_history[last.s] = Final(Records(last.file)).session

\* a session started on a malformed file
C8_WitnessMalformed ==
    /\ Started
    /\ last.file.exists
    /\ ~json_load(last.file.text).ok
    /\ last.file.text # <<>>
    /\ chat_history[last.s] = <<>>

----------------------------------------------------------------------------
\* C10: saved records are cumulative: a session that starts on an archive
\* whose last record holds a non-empty session S begins with S, its history
\* keeps S as a prefix, and the record it saves holds that history; a session
\* whose history is empty at its end leaves the file as it was.
C10_Cumulative ==
    /\ \A s \in Sessions : pc[s] # "none" => IsPrefix(resumed[s], chat_history[s])
    /\ (Started /\ Records(last.file) # <<>>) =>
          /\ resumed[last.s] = Final(Records(last.file)).session
          /\ chat_history[last.s] = resumed[last.s]
    /\ (Ended /\ last.history = <<>>) => file = last.file
    /\ (Ended /\ last.history # <<>>) =>
          /\ Records(file) # <<>>
          /\ Final(Records(file)).session = chat_history[last.s]
          /\ IsPrefix(resumed[last.s], Final(Records(file)).session)

\* a resumed session ended without a turn: the last two records hold the same
\* session
C10_Witness ==
    /\ Ended
    /\ resumed[last.s] # <<>>
    /\ chat_history[last.s] = resumed[last.s]
    /\ Len(Records(file)) >= 2
    /\ Final(Records(file)).session = Final(Front(Records(file))).session
    /\ Len(Records(file)) = Len(Records(last.file)) + 1

\* a resumed session ended after a turn of its own
C10_WitnessGrown ==
    /\ Ended
    /\ resumed[last.s] # <<>>
    /\ Len(chat_history[last.s]) > Len(resumed[last.s])
    /\ Final(Records(file)).session = chat_history[last.s]

----------------------------------------------------------------------------
\* both sessions have saved, and both had read the same archive
BothSavedFromTheSame ==
    /\ pc[1] = "ended" /\ pc[2] = "ended"
    /\ all_history[1] # <<>> /\ all_history[2] # <<>>
    /\ Front(all_history[1]) = Front(all_history[2])

\* C5: when two sessions' saves overlap, both having read the same archive,
\* the later write replaces the earlier one: the file holds what the later
\* writer wrote, the archive both read and one new record, not two.
C5_LastWriterWins ==
    BothSavedFromTheSame =>
        /\ Records(file) \in {all_history[1], all_history[2]}
        /\ Len(Records(file)) = Len(Front(all_history[1])) + 1

\* the lost update: two different session records were saved, the file holds one
C5_Witness ==
    /\ BothSavedFromTheSame
    /\ Final(all_history[1]).session # Final(all_history[2]).session
    /\ Records(file) = all_history[2]
    /\ Front(all_history[1]) # <<>>

====
